---- MODULE Spec2Model ----
(***************************************************************************)
(* Model of discord-nowplaying-integration: the RateLimiter and Queue of   *)
(* utils/__init__.py, the NowPlayingNotifier registry of                   *)
(* nowplaying/__init__.py, and the threads that drive them.                *)
(*                                                                         *)
(* Time is a discrete clock `now` (the value of loop.time()).  The asyncio *)
(* event loop runs one task step at a time, so every action of the         *)
(* consumer and every run of Queue._put is one step between two suspension *)
(* points of the coroutine.  Producer threads only hand a coroutine to the *)
(* loop (run_coroutine_threadsafe) and block on its result.                *)
(***************************************************************************)
EXTENDS Integers, Sequences, FiniteSets, TLC

\* ---- bounds of the model -------------------------------------------------
\* RateLimiter(quota, interval): the program passes (5, 60); the model runs
\* the same class with a smaller quota and interval.
Quota == 2
Interval == 3
\* The clock stops advancing at MaxTime.
MaxTime == 3
\* Queue.put calls in a run; notify calls in a run.
MaxPuts == 3
MaxNotifies == 5
\* Producer threads, distinct track values, players.
NumThreads == 1
NumTracks == 2
NumPlayers == 3
\* Queue.put calls in a run with a Selfbot.
MaxPubPuts == 2
\* notify calls in a run of the whole pipeline, the sources that make them, and
\* the time its clock stops.
MaxPipeNotifies == 3
NumPipeSources == 1
Horizon == 4
\* notify calls in a run of the pipeline under fairness, and the time up to
\* which its clock runs while no get() sleeps.
MaxFairNotifies == 3
FairHorizon == 1
\* Tasks that enter one RateLimiter directly.
NumAcquirers == 2
\* truncate: the characters of the strings tried exhaustively, and the largest
\* max_bytes.
MaxStrLen == 5
MaxBytesArg == 10
\* format_status_message: an artist or a title is up to MaxLead letters and
\* then a pattern of k * RunStep characters, k up to MaxRuns.
MaxLead == 0
RunStep == 44
MaxRuns == 3

\* ---- program constants ---------------------------------------------------
\* Queue(rate_limiter, maxlen=1, loop=loop)
MaxLen == 1

\* format_status_message: "max_bytes = 128" and
\* "min_artist_bytes_when_truncated = 30"
MaxStatusBytes == 128
MinArtistBytes == 30

None == 0
Tracks == 1..NumTracks
Items == {None} \cup Tracks
Players == 1..NumPlayers

VARIABLES
    now,          \* loop.time()
    window,       \* RateLimiter._expiration_timestamps (deque, maxlen = quota)
    wake,         \* instant at which the pending asyncio.sleep completes (0: none)
    pc,           \* position of the consumer's Queue.get() coroutine
    deque,        \* Queue._deque (deque, maxlen = MaxLen)
    lastPopped,   \* Queue._last_popped_item
    cvLock,       \* holder of Queue._cv's lock across a suspension, or "free"
    notified,     \* the consumer's Condition.wait() future has been set
    inflight,     \* per item: producer threads blocked in Queue.put(item)
    mapping,      \* NowPlayingNotifier._mapping, an OrderedDict as a sequence
    regLock,      \* NowPlayingNotifier._lock is held (by a notify blocked in put)
    \* history variables (observations, never read by the program)
    nPut,         \* number of runs of Queue._put so far
    putItems,     \* the set of items those runs were given
    accepted,     \* the items those runs appended to the slot, in order
    getNp,        \* nPut when the pending get() was called (0: no get pending)
    delivered,    \* every value returned by Queue.get(): [item, at, np], with
                  \*   at the time of the return and np the get's getNp
    appended,     \* every instant ever appended to the rate window
    clock,        \* number of notify calls applied
    since,        \* per player: clock of its last absent-to-present transition (0: absent)
    lastTrack,    \* per player: track of its most recent notify (None: absent)
    lastPlayer,   \* the player of the most recent notify call (0: no call yet)
    \* the Selfbot and the client thread
    closed,       \* Selfbot._closed (the shutdown signal) is set
    loopPc,       \* position of the update_presence task
    closeTask,    \* the task either() made of self._closed.wait()
    taken,        \* number of get() results update_presence has received
    loopState,    \* the client thread's event loop: "running" or "closed"
    \* history variables
    published,    \* the game of every change_presence call, in order
    cancelledAt,  \* where the get() task was when either() cancelled it
    closedEarly,  \* the shutdown signal was set before any Queue.put call
    putRaised,    \* number of Queue.put calls that raised
    \* one call of either(first, second) on two operations of any kind
    eKind,        \* per operation: what its coroutine does (see OpKinds)
    eTask,        \* per operation: the state of the task either() made of it
    eEffects,     \* per operation: number of steps its coroutine has run
    ePc,          \* position of the either() coroutine
    eOut,         \* the pair either() returned
    eExc,         \* the operation whose exception either() raised (0: none)
    \* history variable of the whole pipeline
    lastPush,     \* the most recent notify that pushed: [any, at, base, silent]:
                  \*   any: there was one; at: its time; base: the number of
                  \*   get() returns before it; silent: no source was playing
    \* one call of truncate or format_status_message
    sArgs,        \* the function called and its arguments
    sRet,         \* what the call did: not made yet, returned a string, or
                  \* failed an assertion
    \* tasks that enter one RateLimiter directly ("async with rate_limiter")
    acqPc,        \* position of each task
    acqWake       \* instant at which each task's asyncio.sleep completes

rlVars == <<now, window, wake, pc, appended, getNp>>
qVars == <<deque, lastPopped, cvLock, notified, nPut, putItems, accepted, delivered>>
nVars == <<mapping, regLock, clock, since, lastTrack, lastPlayer>>
pVars == <<closed, loopPc, closeTask, taken, loopState, published,
           cancelledAt, closedEarly, putRaised>>
eVars == <<eKind, eTask, eEffects, ePc, eOut, eExc>>
uVars == <<sArgs, sRet, acqPc, acqWake>>
otherVars == <<pVars, eVars, lastPush, uVars>>
vars == <<rlVars, qVars, inflight, nVars, otherVars>>

\* ---- helpers ---------------------------------------------------------------
Min(S) == CHOOSE x \in S : \A y \in S : x <= y
Range(s) == {s[i] : i \in 1..Len(s)}

\* collections.deque(maxlen=n).append(x): a full deque drops its leftmost item.
DequeAppend(dq, x, maxlen) ==
    LET s == Append(dq, x)
    IN  IF Len(s) > maxlen THEN SubSeq(s, Len(s) - maxlen + 1, Len(s)) ELSE s

\* The entries `new` holds beyond those of `old` (what an append added).
NewEntries(old, new) ==
    IF Len(new) > Len(old) THEN SubSeq(new, Len(old) + 1, Len(new)) ELSE <<>>

\* ---- RateLimiter -------------------------------------------------------------
\* __aenter__, the pruning loop: drop every leading instant that is <= now.
RECURSIVE Prune(_, _)
Prune(w, t) ==
    IF Len(w) > 0 /\ Head(w) <= t THEN Prune(Tail(w), t) ELSE w

\* (variant: the quota test never finds the window full)
AtQuota_Never(w) == Len(w) > Quota

\* __aenter__: "if len(...) == maxlen" after pruning.
AtQuota(w) == Len(w) = Quota

\* __aenter__: the argument of asyncio.sleep, popleft() - loop.time().
SleepDelay(w, t) == Head(w) - t

\* (variant: the oldest instant stays in the window during the sleep)
WindowWhileSleeping_Kept(w) == w

\* __aenter__: the window while the sleep is pending; popleft() is evaluated
\* before the sleep begins, so the oldest instant is already gone.
WindowWhileSleeping(w) == Tail(w)

\* The assertion of __aenter__ and of __aexit__.
UnderQuota(w) == Len(w) < Quota

\* (variant: the instant is appended however the block exited)
AExit_Always(w, t, excFree) == DequeAppend(w, t + Interval, Quota)

\* __aexit__: append now + interval only if the block exited exception-free.
AExit(w, t, excFree) ==
    IF excFree THEN DequeAppend(w, t + Interval, Quota) ELSE w

\* ---- Queue ---------------------------------------------------------------------
\* Queue._last_item
LastItem(dq, popped) == IF Len(dq) > 0 THEN dq[Len(dq)] ELSE popped

\* (variant: no dedup test)
Accepts_Always(item, dq, popped) == TRUE

\* Queue._put: the dedup test.
Accepts(item, dq, popped) == item # LastItem(dq, popped)

\* (variant: the slot is an unbounded deque)
PutSlot_Unbounded(item, dq, popped) ==
    IF Accepts(item, dq, popped) THEN Append(dq, item) ELSE dq

\* (variant: a full slot keeps its pending item and the new one is dropped)
PutSlot_KeepPending(item, dq, popped) ==
    IF Accepts(item, dq, popped) /\ Len(dq) < MaxLen THEN Append(dq, item) ELSE dq

\* Queue._put: the slot after the put.
PutSlot(item, dq, popped) ==
    IF Accepts(item, dq, popped) THEN DequeAppend(dq, item, MaxLen) ELSE dq

\* (variant: get() reads the slot without removing the item)
PopSlot_Peek(dq) == dq

\* Queue.get: the slot after "self._deque.popleft()".
PopSlot(dq) == Tail(dq)

\* (variant: the consumer keeps the lock while it waits for the slot)
LockWhileWaiting_Held == "get"

\* Queue.get: the lock Condition.wait_for leaves held while the consumer is
\* suspended waiting for the slot: Condition.wait releases it.
LockWhileWaiting == "free"

\* (variant: "async with self._cv, self._rate_limiter")
LockWhileSleeping_Held == "get"

\* Queue.get: "async with self._rate_limiter, self._cv": the rate limiter is
\* entered first, so the lock is not held while __aenter__ sleeps.
LockWhileSleeping == "free"

\* ---- the consumer's Queue.get() ------------------------------------------------
\* The body of get() from the acquisition of self._cv on, run with window w
\* (entry to the rate limiter completed) for the get() called after np puts.  One task step: either the slot is
\* non-empty and get() pops, leaves both context managers and returns, or it
\* suspends in Condition.wait.
GetBody(w, np) ==
    /\ cvLock = "free"
    /\ IF Len(deque) > 0
       THEN /\ lastPopped' = Head(deque)
            /\ deque' = PopSlot(deque)
            /\ IF UnderQuota(w)
               THEN /\ window' = AExit(w, now, TRUE)
                    /\ appended' = appended \o NewEntries(w, AExit(w, now, TRUE))
                    /\ delivered' = Append(delivered,
                           [item |-> Head(deque), at |-> now, np |-> np])
                    /\ pc' = "idle"
               ELSE /\ window' = w
                    /\ pc' = "assert_fail"
                    /\ UNCHANGED <<appended, delivered>>
            /\ cvLock' = "free"
            /\ notified' = FALSE
       ELSE /\ pc' = "cv_wait"
            /\ notified' = FALSE
            /\ cvLock' = LockWhileWaiting
            /\ window' = w
            /\ UNCHANGED <<deque, lastPopped, appended, delivered>>

\* RateLimiter.__aenter__ has completed with window w: its assertion, then the
\* rest of get().
Entered(w, np) ==
    IF UnderQuota(w)
    THEN GetBody(w, np)
    ELSE /\ pc' = "assert_fail"
         /\ window' = w
         /\ UNCHANGED <<deque, lastPopped, cvLock, notified, appended, delivered>>

\* A consumer calls queue.get(): RateLimiter.__aenter__ prunes, and either
\* starts to sleep (the oldest instant popped) or goes on into the body.
GetStart ==
    /\ pc = "idle"
    /\ LET w == Prune(window, now)
       IN  IF AtQuota(w)
           THEN /\ wake' = now + SleepDelay(w, now)
                /\ window' = WindowWhileSleeping(w)
                /\ pc' = "rl_sleep"
                /\ cvLock' = LockWhileSleeping
                /\ UNCHANGED <<deque, lastPopped, notified, appended, delivered>>
           ELSE /\ Entered(w, nPut)
                /\ UNCHANGED wake
    /\ getNp' = IF pc' \in {"rl_sleep", "cv_wait"} THEN nPut ELSE 0
    /\ UNCHANGED <<now, nPut, putItems, accepted, inflight, nVars, otherVars>>

\* asyncio.sleep completes (not before its deadline); __aenter__ goes on.
RlWake ==
    /\ pc = "rl_sleep"
    /\ now >= wake
    /\ Entered(window, getNp)
    /\ wake' = 0
    /\ getNp' = IF pc' = "cv_wait" THEN getNp ELSE 0
    /\ UNCHANGED <<now, nPut, putItems, accepted, inflight, nVars, otherVars>>

\* The consumer's wait() future was set by notify(): it reacquires the lock
\* and wait_for tests the predicate again.
CvWake ==
    /\ pc = "cv_wait"
    /\ notified
    /\ GetBody(window, getNp)
    /\ getNp' = IF pc' = "cv_wait" THEN getNp ELSE 0
    /\ UNCHANGED <<now, wake, nPut, putItems, accepted, inflight, nVars,
                   otherVars>>

\* (variant: a get() cancelled in Condition.wait leaves the lock held)
LockAfterCancel_Held == "get"

\* Queue.get cancelled: Condition.wait reacquires the lock before it raises
\* and "async with self._cv" releases it.
LockAfterCancel == "free"

\* The get() task is cancelled while suspended.  Cancelled in the sleep,
\* __aenter__ raises and __aexit__ is not run; cancelled in Condition.wait,
\* both context managers exit with the CancelledError (and __aexit__ makes its
\* assertion).
CancelGet ==
    /\ pc \in {"rl_sleep", "cv_wait"}
    /\ pc' = IF pc = "cv_wait" /\ ~UnderQuota(window) THEN "assert_fail" ELSE "idle"
    /\ window' = IF pc = "cv_wait" THEN AExit(window, now, FALSE) ELSE window
    /\ appended' = appended \o NewEntries(window, window')
    /\ cvLock' = LockAfterCancel
    /\ notified' = FALSE
    /\ wake' = 0
    /\ getNp' = 0

\* either() cancels the get() task (the close event won the race); the get is
\* later issued again, by the next Selfbot on the same queue.
Cancel ==
    /\ CancelGet
    /\ UNCHANGED <<now, deque, lastPopped, nPut, putItems, accepted, delivered,
                   inflight, nVars, otherVars>>

\* ---- producers -----------------------------------------------------------------
\* The number of threads blocked in Queue.put.
RECURSIVE CountUpTo(_, _)
CountUpTo(f, n) == IF n < 0 THEN 0 ELSE f[n] + CountUpTo(f, n - 1)
InFlight == CountUpTo(inflight, NumTracks)
NothingInFlight == \A item \in Items : inflight[item] = 0

\* A thread calls Queue.put(item): the coroutine _put(item) is handed to the
\* loop (run_coroutine_threadsafe) and the thread blocks on its result.
PutCall(item) ==
    /\ loopState = "running"
    /\ InFlight < NumThreads
    /\ nPut + InFlight < MaxPuts
    /\ inflight' = [inflight EXCEPT ![item] = @ + 1]
    /\ UNCHANGED <<rlVars, qVars, nVars, otherVars>>

\* The loop runs Queue._put(item) for one of the threads blocked in
\* put(item), and that put() returns.
PutRun(item) ==
    /\ loopState = "running"
    /\ inflight[item] > 0
    /\ cvLock = "free"
    /\ deque' = PutSlot(item, deque, lastPopped)
    /\ notified' = IF Accepts(item, deque, lastPopped) /\ pc = "cv_wait"
                   THEN TRUE ELSE notified
    /\ accepted' = IF Accepts(item, deque, lastPopped)
                   THEN Append(accepted, item) ELSE accepted
    /\ nPut' = nPut + 1
    /\ putItems' = putItems \cup {item}
    /\ inflight' = [inflight EXCEPT ![item] = @ - 1]
    /\ regLock' = FALSE
    /\ UNCHANGED <<rlVars, lastPopped, cvLock, delivered,
                   mapping, clock, since, lastTrack, lastPlayer, otherVars>>

\* ---- NowPlayingNotifier -------------------------------------------------------
\* current_track: the value of the first entry of the OrderedDict, or None.
CurrentTrack(m) == IF Len(m) > 0 THEN m[1].track ELSE None

HasPlayer(m, s) == \E i \in 1..Len(m) : m[i].player = s

\* "del self._mapping[player]"
MapDel(m, s) == SelectSeq(m, LAMBDA e : e.player # s)

\* (variant: an updated key moves to the end, as a delete and re-insert would)
MapSet_MoveToEnd(m, s, t) ==
    Append(SelectSeq(m, LAMBDA e : e.player # s), [player |-> s, track |-> t])

\* "self._mapping[player] = track": an existing key keeps its position, a new
\* key goes to the end.
MapSet(m, s, t) ==
    IF HasPlayer(m, s)
    THEN [i \in 1..Len(m) |->
            IF m[i].player = s THEN [player |-> s, track |-> t] ELSE m[i]]
    ELSE Append(m, [player |-> s, track |-> t])

\* (variant: a report of absence leaves the entry in place)
Mutate_NoDel(m, s, t) == IF t = None THEN m ELSE MapSet(m, s, t)

\* notify: the mutation of the registry.
Mutate(m, s, t) ==
    IF t = None
    THEN (IF HasPlayer(m, s) THEN MapDel(m, s) ELSE m)
    ELSE MapSet(m, s, t)

\* (variant: every notify pushes)
Changed_Always(old, new) == TRUE

\* (variant: no notify pushes)
Changed_Never(old, new) == FALSE

\* notify: "if new_track != old_track", a comparison of values.
Changed(old, new) == new # old

\* (variant: the lock is released before queue.put is called)
LockDuringPut_Released == FALSE

\* notify: "with self._lock:" spans the call of queue.put, so the lock is held
\* while the thread is blocked in put.
LockDuringPut == TRUE

\* An observer thread calls notify(s, t): under the registry lock it mutates
\* the registry and, if the current track changed, blocks in queue.put with
\* the lock still held (released when PutRun completes the put).
Notify(s, t) ==
    /\ ~regLock
    /\ clock < MaxNotifies
    /\ mapping' = Mutate(mapping, s, t)
    /\ IF Changed(CurrentTrack(mapping), CurrentTrack(mapping'))
       THEN /\ inflight' = [inflight EXCEPT ![CurrentTrack(mapping')] = @ + 1]
            /\ regLock' = LockDuringPut
       ELSE UNCHANGED <<inflight, regLock>>
    /\ clock' = clock + 1
    /\ since' = [since EXCEPT ![s] =
                    IF t = None THEN 0 ELSE IF @ = 0 THEN clock + 1 ELSE @]
    /\ lastTrack' = [lastTrack EXCEPT ![s] = t]
    /\ lastPlayer' = s
    /\ UNCHANGED <<rlVars, qVars, otherVars>>

\* ---- either ----------------------------------------------------------------------
\* asyncio.wait(..., return_when=FIRST_COMPLETED): either() resumes only once
\* one of its two tasks is done.
EitherReady(firstDone, secondDone) == firstDone \/ secondDone

\* "(True, task.result()) if (task in done) else (False, None)"
Position(inDone, result) ==
    IF inDone THEN [ok |-> TRUE, result |-> result]
    ELSE [ok |-> FALSE, result |-> None]

\* (variant: a failed task's exception is not raised)
Raises_Never(firstState, secondState) == 0

\* The task whose result() raises while either() builds its pair, the first
\* position being evaluated first (0: neither).
Raises(firstState, secondState) ==
    IF firstState = "failed" THEN 1
    ELSE IF secondState = "failed" THEN 2
    ELSE 0

\* (variant: the pending task is not cancelled)
AfterCancel_Ignored(state) == state

\* "for task in pending: task.cancel()": CancelledError is raised in the task
\* at its suspension point (or before its first step) and the coroutine runs
\* no further.
AfterCancel(state) ==
    IF state \in {"new", "suspended"} THEN "cancelled" ELSE state

\* What the coroutine given to either() does: return or raise at its first
\* step, suspend once and then return or raise, or suspend for ever.
OpKinds == {"returns", "raises", "later", "raises_later", "never"}

\* The value operation i returns.
ResultOf(i) == i

TaskDone(state) == state \in {"done", "failed"}

\* either(first, second) is called: ensure_future makes a task of each
\* awaitable and either() suspends in asyncio.wait.
EitherCall ==
    /\ ePc = "idle"
    /\ \E k1 \in OpKinds, k2 \in OpKinds : eKind' = <<k1, k2>>
    /\ eTask' = <<"new", "new">>
    /\ ePc' = "waiting"
    /\ UNCHANGED <<rlVars, qVars, inflight, nVars, pVars, lastPush, uVars,
                   eEffects, eOut, eExc>>

\* The loop runs a step of the task of operation i: its first step (the
\* first operation's before the second's, the ready queue being FIFO), or the
\* step after its suspension.
OpStep(i) ==
    /\ \/ eTask[i] = "new" /\ (i = 2 => eTask[1] # "new")
       \/ eTask[i] = "suspended" /\ eKind[i] \in {"later", "raises_later"}
    /\ eEffects' = [eEffects EXCEPT ![i] = @ + 1]
    /\ eTask' = [eTask EXCEPT ![i] =
           IF eTask[i] = "new"
           THEN (IF eKind[i] = "returns" THEN "done"
                 ELSE IF eKind[i] = "raises" THEN "failed"
                 ELSE "suspended")
           ELSE (IF eKind[i] = "later" THEN "done" ELSE "failed")]
    /\ UNCHANGED <<rlVars, qVars, inflight, nVars, pVars, lastPush, uVars,
                   eKind, ePc, eOut, eExc>>

\* either() resumes (both tasks have run their first step by then): it
\* cancels the pending task and builds its pair, or a result() raises.
EitherResume ==
    /\ ePc = "waiting"
    /\ eTask[1] # "new" /\ eTask[2] # "new"
    /\ EitherReady(TaskDone(eTask[1]), TaskDone(eTask[2]))
    /\ eTask' = <<AfterCancel(eTask[1]), AfterCancel(eTask[2])>>
    /\ eExc' = Raises(eTask[1], eTask[2])
    /\ ePc' = IF eExc' # 0 THEN "raised" ELSE "returned"
    /\ eOut' = IF eExc' # 0 THEN eOut
               ELSE <<Position(TaskDone(eTask[1]), ResultOf(1)),
                      Position(TaskDone(eTask[2]), ResultOf(2))>>
    /\ UNCHANGED <<rlVars, qVars, inflight, nVars, pVars, lastPush, uVars,
                   eKind, eEffects>>

\* ---- Selfbot.update_presence ------------------------------------------------------
\* format_status_message(*track), of an abstract track.
StatusMessage(t) == <<"status", t>>

\* change_presence(game=None, ...): the status is cleared.
NoGame == [name |-> <<>>, type |-> 0]

\* (variant: the absent value is formatted like a track)
GameOf_NoClear(item) == [name |-> StatusMessage(item), type |-> 2]

\* "discord.Game(name=format_status_message(*state), type=2) if state else None"
GameOf(item) ==
    IF item # None THEN [name |-> StatusMessage(item), type |-> 2] ELSE NoGame

\* (variant: the loop does not skip an iteration that got no item)
Skips_Never(got) == FALSE

\* "if not got_nowplaying_state: continue"
Skips(got) == ~got

\* (variant: "while True")
LoopContinues_Always(c) == TRUE

\* "while not self.is_closed"
LoopContinues(c) == ~c

\* The get() task of the current either() call has returned; it has run its
\* first step.
GetDone == Len(delivered) > taken
GetStarted == pc # "idle" \/ GetDone

\* The head of the loop: test is_closed and either leave the loop or call
\* either(queue.get(), self._closed.wait()), which makes the two tasks and
\* suspends in asyncio.wait.
LoopIterate ==
    IF LoopContinues(closed)
    THEN /\ loopPc' = "either"
         /\ closeTask' = "pending"
    ELSE /\ loopPc' = "exited"
         /\ closeTask' = "none"

\* wait_until_ready() returns and the loop begins.
PubStart ==
    /\ loopPc = "ready"
    /\ LoopIterate
    /\ UNCHANGED <<rlVars, qVars, inflight, nVars, eVars, lastPush, uVars,
                   closed, taken, loopState,
                   published, cancelledAt, closedEarly, putRaised>>

\* The first step of the get() task either() made.
PubGetStart ==
    /\ loopPc = "either"
    /\ ~GetStarted
    /\ GetStart

\* Client.close() sets the shutdown signal.
Close ==
    /\ loopState = "running"
    /\ ~closed
    /\ closed' = TRUE
    /\ closedEarly' = (nPut + InFlight = 0)
    /\ UNCHANGED <<rlVars, qVars, inflight, nVars, eVars, lastPush, uVars,
                   loopPc, closeTask, taken,
                   loopState, published, cancelledAt, putRaised>>

\* The task of self._closed.wait() runs (after the get() task's first step,
\* the loop's ready queue being FIFO) and finds the event set.
CloseWaitRun ==
    /\ closeTask = "pending"
    /\ closed
    /\ GetStarted
    /\ closeTask' = "done"
    /\ UNCHANGED <<rlVars, qVars, inflight, nVars, eVars, lastPush, uVars,
                   closed, loopPc, taken,
                   loopState, published, cancelledAt, closedEarly, putRaised>>

\* either() resumes: it cancels the task still pending, builds the pair of
\* results (a failed task's result() raises), and update_presence goes on with
\* the first position: it skips the iteration, or it makes the game and calls
\* change_presence.
EitherReturn ==
    /\ loopPc = "either"
    /\ EitherReady(GetDone \/ pc = "assert_fail", closeTask = "done")
    /\ IF pc \in {"rl_sleep", "cv_wait"}
       THEN CancelGet
       ELSE UNCHANGED <<pc, window, appended, cvLock, notified, wake, getNp>>
    /\ cancelledAt' = IF GetDone \/ pc = "assert_fail" THEN cancelledAt
                      ELSE IF GetStarted THEN pc ELSE "new"
    /\ LET first == Position(GetDone,
                              IF GetDone THEN delivered[taken + 1].item ELSE None)
       IN  IF pc = "assert_fail"
           THEN /\ loopPc' = "raised"
                /\ closeTask' = "none"
                /\ UNCHANGED <<taken, published>>
           ELSE IF Skips(first.ok)
           THEN /\ LoopIterate
                /\ UNCHANGED <<taken, published>>
           ELSE /\ taken' = taken + 1
                /\ published' = Append(published, GameOf(first.result))
                /\ loopPc' = "publishing"
                /\ closeTask' = "none"
    /\ UNCHANGED <<now, deque, lastPopped, nPut, putItems, accepted, delivered,
                   inflight, nVars, eVars, lastPush, uVars, closed,
                   loopState,
                   closedEarly,
                   putRaised>>

\* change_presence returns and the loop goes round.
PublishDone ==
    /\ loopPc = "publishing"
    /\ LoopIterate
    /\ UNCHANGED <<rlVars, qVars, inflight, nVars, eVars, lastPush, uVars,
                   closed, taken, loopState,
                   published, cancelledAt, closedEarly, putRaised>>

\* run_client: every task has finished and the client thread closes its event
\* loop.
ClientExit ==
    /\ loopState = "running"
    /\ loopPc = "exited"
    /\ loopState' = "closed"
    /\ UNCHANGED <<rlVars, qVars, inflight, nVars, eVars, lastPush, uVars,
                   closed, loopPc, closeTask,
                   taken, published, cancelledAt, closedEarly, putRaised>>

\* A thread calls Queue.put(item) while the Selfbot's event loop runs.
PubPutCall(item) ==
    /\ nPut + InFlight < MaxPubPuts
    /\ PutCall(item)

\* A thread calls Queue.put(item) after the loop was closed:
\* run_coroutine_threadsafe raises RuntimeError and _put never runs.
PutRaise(item) ==
    /\ loopState = "closed"
    /\ nPut + InFlight + putRaised < MaxPubPuts
    /\ putRaised' = putRaised + 1
    /\ UNCHANGED <<rlVars, qVars, inflight, nVars, eVars, lastPush, uVars,
                   closed, loopPc, closeTask,
                   taken, loopState, published, cancelledAt, closedEarly>>

\* ---- the whole pipeline -----------------------------------------------------------
\* An observer thread calls notify(s, t) while the Selfbot runs: the handler
\* of Notify, with the push recorded in lastPush.
PipeNotify(s, t) ==
    /\ ~regLock
    /\ clock < MaxPipeNotifies
    /\ mapping' = Mutate(mapping, s, t)
    /\ IF Changed(CurrentTrack(mapping), CurrentTrack(mapping'))
       THEN /\ inflight' = [inflight EXCEPT ![CurrentTrack(mapping')] = @ + 1]
            /\ regLock' = LockDuringPut
            /\ lastPush' = [any |-> TRUE, at |-> now, base |-> Len(delivered),
                            silent |-> CurrentTrack(mapping) = None]
       ELSE UNCHANGED <<inflight, regLock, lastPush>>
    /\ clock' = clock + 1
    /\ UNCHANGED <<rlVars, qVars, since, lastTrack, lastPlayer, pVars, eVars,
                   uVars>>

\* ---- strings --------------------------------------------------------------------
\* A str is a sequence of characters; a character is written as itself when it
\* is ASCII and as its code point otherwise.  bytes are pairs <<c, k>>: the k-th
\* byte of the UTF-8 encoding of character c.
Space == " "
EAcute == "U+00E9"
UUmlaut == "U+00FC"
EmDash == "U+2014"
HorizontalEllipsis == "U+2026"
IdeographicSpace == "U+3000"
EighthNote == "U+266A"
GClef == "U+1D11E"

\* The length of a character's UTF-8 encoding.
Utf8Len(c) ==
    CASE c \in {EAcute, UUmlaut} -> 2
      [] c \in {EmDash, HorizontalEllipsis, IdeographicSpace, EighthNote} -> 3
      [] c = GClef -> 4
      [] OTHER -> 1

\* str.isspace() of one character.
IsSpace(c) == c \in {Space, IdeographicSpace}

\* str.encode(): the bytes of each character, in order (computed by halves).
RECURSIVE Encode(_)
Encode(string) ==
    IF Len(string) = 0 THEN <<>>
    ELSE IF Len(string) = 1
    THEN [k \in 1..Utf8Len(string[1]) |-> <<string[1], k>>]
    ELSE LET half == Len(string) \div 2
         IN  Encode(SubSeq(string, 1, half))
             \o Encode(SubSeq(string, half + 1, Len(string)))

\* len(string.encode())
EncodedLen(string) == Len(Encode(string))

\* bytes.decode(errors='ignore'): a complete character is decoded where its
\* bytes stand in full, and a byte that belongs to no complete character is
\* dropped.
DecodeIgnore(bytes) ==
    LET Complete(i) ==
            LET c == bytes[i][1]
            IN  /\ i + Utf8Len(c) - 1 <= Len(bytes)
                /\ \A k \in 1..Utf8Len(c) : bytes[i + k - 1] = <<c, k>>
        starts == SelectSeq([i \in 1..Len(bytes) |-> i], Complete)
    IN  [j \in 1..Len(starts) |-> bytes[starts[j]][1]]

\* bytes[:n]; a negative n counts from the end, as a slice does.
SliceTo(bytes, n) ==
    IF n >= 0 THEN SubSeq(bytes, 1, IF n < Len(bytes) THEN n ELSE Len(bytes))
    ELSE SubSeq(bytes, 1, Len(bytes) + n)

\* The positions of the whitespace (space = TRUE) or of the other characters
\* of a string, in order.
Positions(string, space) ==
    SelectSeq([i \in 1..Len(string) |-> i], LAMBDA i : IsSpace(string[i]) = space)

\* str.rstrip() and str.strip()
RStrip(string) ==
    LET keep == Positions(string, FALSE)
    IN  IF keep = <<>> THEN <<>> ELSE SubSeq(string, 1, keep[Len(keep)])

Strip(string) ==
    LET keep == Positions(string, FALSE)
    IN  IF keep = <<>> THEN <<>> ELSE SubSeq(string, keep[1], keep[Len(keep)])

\* str.rsplit(maxsplit=1): from the right, the last word, and before it what
\* is left of the string with its trailing whitespace removed, if anything is.
RSplit1(string) ==
    LET t == RStrip(string)
        spaces == Positions(t, TRUE)
        start == IF spaces = <<>> THEN 1 ELSE spaces[Len(spaces)] + 1
        word == SubSeq(t, start, Len(t))
        rest == RStrip(SubSeq(t, 1, start - 1))
    IN  IF t = <<>> THEN <<>>
        ELSE IF rest = <<>> THEN <<word>>
        ELSE <<rest, word>>

\* The outcome of a call: a returned str, or an AssertionError.
Returned(value) == [state |-> "returned", value |-> value]
AssertionError == [state |-> "assertion_error", value |-> <<>>]

\* ---- truncate ---------------------------------------------------------------------
\* "ellipsis = '[...]'" with the horizontal-ellipsis character, "space = ' '"
Ellipsis == <<"[", HorizontalEllipsis, "]">>

\* (variant: a partial word is never lobbed off)
LobOff_Never(string) == string

\* truncate: "If the string (is non-empty and) ends with a partial word, then
\* lob that off".
LobOff(string) ==
    IF string # <<>> /\ ~IsSpace(string[Len(string)])
    THEN LET split == RSplit1(string)
         IN  IF Len(split) = 2 THEN split[1] \o <<Space>> ELSE string
    ELSE string

\* (variant: the budget test comes before the assertion)
Precondition_Unchecked(string, max_bytes) ==
    max_bytes - EncodedLen(Ellipsis) >= 0 \/ EncodedLen(string) <= max_bytes

\* truncate: "assert max_bytes_available_when_truncated >= 0"
Precondition(string, max_bytes) == max_bytes - EncodedLen(Ellipsis) >= 0

\* truncate(string, max_bytes)
Truncate(string, max_bytes) ==
    LET max_bytes_available_when_truncated == max_bytes - EncodedLen(Ellipsis)
        cut == DecodeIgnore(SliceTo(Encode(string),
                                    max_bytes_available_when_truncated))
        truncated_string == LobOff(cut) \o Ellipsis
    IN  IF ~Precondition(string, max_bytes) THEN AssertionError
        ELSE IF EncodedLen(string) <= max_bytes THEN Returned(string)
        ELSE IF EncodedLen(truncated_string) <= max_bytes
             THEN Returned(truncated_string)
             ELSE AssertionError

\* The strings of the doctests of truncate.
Foobar ==
    <<"f", "o", "o", "b", "a", "r">>
Hello ==
    <<"h", "e", "l", "l", "o">>
LoremIpsum ==
    <<"l", "o", "r", "e", "m", Space, "i", "p", "s", "u", "m", Space, "d",
      "o", "l", "o", "r", Space, "s", "i", "t", Space, "a", "m", "e", "t">>
Howdee ==
    <<"h", "o", "w", "d", "e", "e", "d", "o", "o", "d", "e", "e", "t", "h",
      "e", "r", "e">>
HelloWorld ==
    <<"h", "e", "l", "l", "o", Space, "w", "o", "r", "l", "d">>

\* The calls of the doctests of truncate.
TruncateDoctests ==
    {[fn |-> "truncate", string |-> Foobar, max_bytes |-> 8],
     [fn |-> "truncate", string |-> Hello, max_bytes |-> 5],
     [fn |-> "truncate", string |-> LoremIpsum, max_bytes |-> 21],
     [fn |-> "truncate", string |-> LoremIpsum, max_bytes |-> 22],
     [fn |-> "truncate", string |-> LoremIpsum, max_bytes |-> 23],
     [fn |-> "truncate", string |-> Howdee, max_bytes |-> 11],
     [fn |-> "truncate", string |-> HelloWorld, max_bytes |-> 5],
     [fn |-> "truncate", string |-> HelloWorld, max_bytes |-> 4]}

\* Every string of at most MaxStrLen characters over a letter, the space, a
\* two-byte letter and a three-byte whitespace character, with every max_bytes
\* up to MaxBytesArg.
ShortStrings ==
    UNION {[1..k -> {"a", Space, EAcute, IdeographicSpace}] : k \in 0..MaxStrLen}

TruncateCalls ==
    TruncateDoctests \cup
    {[fn |-> "truncate", string |-> string, max_bytes |-> n] :
        string \in ShortStrings, n \in 0..MaxBytesArg}

\* One call of truncate.
TruncateCall ==
    /\ sArgs.fn = "truncate"
    /\ sRet.state = "none"
    /\ sRet' = Truncate(sArgs.string, sArgs.max_bytes)
    /\ UNCHANGED <<rlVars, qVars, inflight, nVars, pVars, eVars, lastPush,
                   sArgs, acqPc, acqWake>>

\* ---- format_status_message ---------------------------------------------------------
\* "separator", "unknown", and the "prefix" of the script main.py (the package
\* has none).
Separator == <<Space, EmDash, Space>>
Unknown == <<"[", "u", "n", "k", "n", "o", "w", "n", "]">>
ScriptPrefix == <<EighthNote, Space>>
PrefixOf(version) == IF version = "script" THEN ScriptPrefix ELSE <<>>

\* (variant: a blank artist or title is kept)
OrUnknown_Keep(string) == Strip(string)

\* "artist.strip() or unknown"
OrUnknown(string) == IF Strip(string) = <<>> THEN Unknown ELSE Strip(string)

\* (variant: the title is given its own length as its budget)
TitleBudget_Whole(title_bytes, bytes_left) == title_bytes

\* "truncate(title, title_bytes + bytes_left)": the budget.
TitleBudget(title_bytes, bytes_left) == title_bytes + bytes_left

\* (variant: the artist is cut down to whatever is left, without the floor)
ArtistBudget_NoFloor(artist_bytes, bytes_left) == artist_bytes + bytes_left

\* "max(min_artist_bytes_when_truncated, artist_bytes + bytes_left)"
ArtistBudget(artist_bytes, bytes_left) ==
    IF artist_bytes + bytes_left > MinArtistBytes
    THEN artist_bytes + bytes_left ELSE MinArtistBytes

\* (variant: the artist is never cut)
CutsArtist_Never(artist_bytes, bytes_left) == FALSE

\* "if bytes_left < 0:" and "if artist_bytes > min_artist_bytes_when_truncated:"
CutsArtist(artist_bytes, bytes_left) ==
    bytes_left < 0 /\ artist_bytes > MinArtistBytes

\* A run of format_status_message(artist, title), with the prefix of the
\* version: its outcome, and the calls of truncate it makes, in order.
FormatRun(version, artist_arg, title_arg) ==
    LET prefix == PrefixOf(version)
        max_bytes_available ==
            MaxStatusBytes - EncodedLen(prefix) - EncodedLen(Separator)
        artist0 == OrUnknown(artist_arg)
        title0 == OrUnknown(title_arg)
        title_bytes == EncodedLen(title0)
        bytes_left0 == max_bytes_available - EncodedLen(artist0) - title_bytes
        cutArtist == CutsArtist(EncodedLen(artist0), bytes_left0)
        artistBudget == ArtistBudget(EncodedLen(artist0), bytes_left0)
        artistCall == IF cutArtist
                      THEN Truncate(artist0, artistBudget)
                      ELSE Returned(artist0)
        artist == artistCall.value
        bytes_left == max_bytes_available - EncodedLen(artist) - title_bytes
        cutTitle == artistCall.state = "returned" /\ bytes_left < 0
        titleBudget == TitleBudget(title_bytes, bytes_left)
        titleCall == IF cutTitle
                     THEN Truncate(title0, titleBudget)
                     ELSE Returned(title0)
        status_message == prefix \o artist \o Separator \o titleCall.value
        asserted == MinArtistBytes < max_bytes_available
    IN  [outcome |->
             IF ~asserted THEN AssertionError
             ELSE IF artistCall.state # "returned" THEN AssertionError
             ELSE IF titleCall.state # "returned" THEN AssertionError
             ELSE IF EncodedLen(status_message) <= MaxStatusBytes
                  THEN Returned(status_message)
                  ELSE AssertionError,
         calls |->
             IF ~asserted THEN <<>>
             ELSE (IF cutArtist
                   THEN <<[arg |-> "artist", string |-> artist0,
                           max_bytes |-> artistBudget]>>
                   ELSE <<>>)
                  \o
                  (IF cutTitle
                   THEN <<[arg |-> "title", string |-> title0,
                           max_bytes |-> titleBudget]>>
                   ELSE <<>>)]

\* format_status_message(artist, title): what the call returns or raises.
FormatStatusMessage(version, artist_arg, title_arg) ==
    FormatRun(version, artist_arg, title_arg).outcome

\* The strings of the doctests of format_status_message.
Audiomachine ==
    <<"a", "u", "d", "i", "o", "m", "a", "c", "h", "i", "n", "e">>
BeyondTheClouds ==
    <<"B", "e", "y", "o", "n", "d", Space, "t", "h", "e", Space, "C", "l",
      "o", "u", "d", "s">>
DanielWiniger ==
    <<"D", "a", "n", "i", "e", "l", Space, "W", "i", "n", "i", "g", "e", "r",
      ",", Space, "D", "a", "n", "i", "e", "l", Space, "P", "e", "r", "r",
      "e", "t", Space, "&", Space, "P", "r", "a", "x", "e", "d", "i", "s",
      Space, "R", "u", "t", "t", "i">>
EllensGesang ==
    <<"E", "l", "l", "e", "n", "'", "s", Space, "G", "e", "s", "a", "n", "g",
      Space, "I", "I", "I", Space, "(", "A", "v", "e", Space, "M", "a", "r",
      "i", "a", "!", ")", ",", Space, "O", "p", ".", Space, "5", "6", ",",
      Space, "N", "o", ".", Space, "6", ",", Space, "D", ".", Space, "8",
      "3", "9", ",", Space, "\"", "H", "y", "m", "n", "e", Space, "a", "n",
      Space, "D", "i", "e", Space, "J", "u", "n", "g", "f", "r", "a", "u",
      "\"">>
GustavKuhn ==
    <<"G", "u", "s", "t", "a", "v", Space, "K", "u", "h", "n", ",", Space,
      "H", "a", "y", "d", "n", Space, "O", "r", "c", "h", "e", "s", "t", "r",
      "a", Space, "o", "f", Space, "B", "o", "l", "z", "a", "n", "o", Space,
      "&", Space, "T", "r", "e", "n", "t", "o", Space, "&", Space, "S", "o",
      "l", "o", "i", "s", "t", "s", Space, "o", "f", Space, "A", "c", "c",
      "a", "d", "e", "m", "i", "a", Space, "d", "i", Space, "M", "o", "n",
      "t", "e", "g", "r", "a", "l">>
Symphonie ==
    <<"S", "y", "m", "p", "h", "o", "n", "i", "e", Space, "N", "o", ".",
      Space, "6", Space, "i", "n", Space, "A", "-", "D", "u", "r", ",",
      Space, "O", "p", ".", Space, "6", "8", Space, "-", Space, "\"", "P",
      "a", "s", "t", "o", "r", "a", "l", "e", "\"", ":", Space, "E", "r",
      "w", "a", "c", "h", "e", "n", Space, "h", "e", "i", "t", "e", "r", "e",
      "r", Space, "G", "e", "f", UUmlaut, "h", "l", "e", Space, "b", "e",
      "i", Space, "d", "e", "r", Space, "A", "n", "k", "u", "n", "f", "t",
      Space, "a", "u", "f", Space, "d", "e", "m", Space, "L", "a", "n", "d",
      "e", ":", Space, "A", "l", "l", "e", "g", "r", "o", Space, "m", "a",
      Space, "n", "o", "n", Space, "t", "r", "o", "p", "p", "o">>

FormatDoctests ==
    {<<Audiomachine, BeyondTheClouds>>, <<DanielWiniger, EllensGesang>>,
     <<GustavKuhn, Symphonie>>, <<<<>>, <<Space>>>>}

\* The first n characters of `unit` repeated.
Cycle(unit, n) == [i \in 1..n |-> unit[((i - 1) % Len(unit)) + 1]]

\* Patterns: one letter, a multi-byte character of each width, words of three
\* letters, words of one two-byte letter, whitespace.
Units ==
    {<<"a">>, <<EAcute>>, <<EmDash>>, <<GClef>>, <<"a", "a", "a", Space>>,
     <<EAcute, IdeographicSpace>>, <<Space>>}

LongStrings ==
    {Cycle(<<"a">>, lead) \o Cycle(unit, k * RunStep) :
        lead \in 0..MaxLead, unit \in Units, k \in 0..MaxRuns}

FormatCalls ==
    {[fn |-> "format_status_message", version |-> v,
      artist |-> pair[1], title |-> pair[2]] :
        v \in {"package", "script"},
        pair \in FormatDoctests \cup (LongStrings \X LongStrings)}

\* One call of format_status_message.
FormatCall ==
    /\ sArgs.fn = "format_status_message"
    /\ sRet.state = "none"
    /\ sRet' = FormatStatusMessage(sArgs.version, sArgs.artist, sArgs.title)
    /\ UNCHANGED <<rlVars, qVars, inflight, nVars, pVars, eVars, lastPush,
                   sArgs, acqPc, acqWake>>

\* ---- tasks on one RateLimiter -----------------------------------------------------
\* Tasks of one event loop that each run "async with rate_limiter: ..." over
\* and over.  A step of a task runs up to its next suspension point.
Acquirers == 1..NumAcquirers

\* __aenter__ up to its sleep or its end: prune, then sleep with the oldest
\* instant popped, or go on to the assertion and into the block.
AcqEnter(i) ==
    /\ acqPc[i] = "idle"
    /\ LET w == Prune(window, now)
       IN  IF AtQuota(w)
           THEN /\ window' = WindowWhileSleeping(w)
                /\ acqWake' = [acqWake EXCEPT ![i] = now + SleepDelay(w, now)]
                /\ acqPc' = [acqPc EXCEPT ![i] = "sleep"]
           ELSE /\ window' = w
                /\ acqPc' = [acqPc EXCEPT ![i] =
                                IF UnderQuota(w) THEN "inside" ELSE "enter_assert"]
                /\ UNCHANGED acqWake
    /\ UNCHANGED <<now, wake, pc, appended, getNp, qVars, inflight, nVars,
                   pVars, eVars, lastPush, sArgs, sRet>>

\* The sleep of __aenter__ completes: the assertion, then into the block.
AcqWake(i) ==
    /\ acqPc[i] = "sleep"
    /\ now >= acqWake[i]
    /\ acqPc' = [acqPc EXCEPT ![i] =
                    IF UnderQuota(window) THEN "inside" ELSE "enter_assert"]
    /\ acqWake' = [acqWake EXCEPT ![i] = 0]
    /\ UNCHANGED <<rlVars, qVars, inflight, nVars, pVars, eVars, lastPush,
                   sArgs, sRet>>

\* The block ends without an exception: __aexit__ asserts and appends.
AcqExit(i) ==
    /\ acqPc[i] = "inside"
    /\ IF UnderQuota(window)
       THEN /\ window' = AExit(window, now, TRUE)
            /\ acqPc' = [acqPc EXCEPT ![i] = "idle"]
       ELSE /\ window' = window
            /\ acqPc' = [acqPc EXCEPT ![i] = "exit_assert"]
    /\ UNCHANGED <<now, wake, pc, appended, getNp, qVars, inflight, nVars,
                   pVars, eVars, lastPush, sArgs, sRet, acqWake>>

\* ---- time ----------------------------------------------------------------------
Tick ==
    /\ now < MaxTime
    /\ now' = now + 1
    /\ UNCHANGED <<window, wake, pc, appended, getNp, qVars, inflight, nVars,
                   otherVars>>

\* The steps of the tasks on the client thread's event loop.
LoopTasks ==
    \/ PubStart
    \/ PubGetStart
    \/ RlWake
    \/ CvWake
    \/ CloseWaitRun
    \/ EitherReturn
    \/ PublishDone

\* The event loop has nothing to run: no task is ready and no put() is waiting
\* for the loop.
LoopIdle == ~ENABLED LoopTasks /\ NothingInFlight

\* Time passes only when the event loop has nothing to run (a step of the loop
\* takes no time).
IdleTick ==
    /\ now < Horizon
    /\ LoopIdle
    /\ now' = now + 1
    /\ UNCHANGED <<window, wake, pc, appended, getNp, qVars, inflight, nVars,
                   otherVars>>

\* asyncio.sleep runs out: while the get() task sleeps in the rate limiter and
\* the loop has nothing else to run, time passes up to the deadline of the
\* sleep.
SleepTick ==
    /\ pc = "rl_sleep"
    /\ now < wake
    /\ LoopIdle
    /\ now' = now + 1
    /\ UNCHANGED <<window, wake, pc, appended, getNp, qVars, inflight, nVars,
                   otherVars>>

\* Time passes while the event loop has nothing to run, up to FairHorizon.
FairTick ==
    /\ now < FairHorizon
    /\ IdleTick

\* An observer thread calls notify(s, t), in a run with at most
\* MaxFairNotifies calls (the calls stop): the handler of Notify, with no
\* record kept of the call.
FairNotify(s, t) ==
    /\ ~regLock
    /\ clock < MaxFairNotifies
    /\ mapping' = Mutate(mapping, s, t)
    /\ IF Changed(CurrentTrack(mapping), CurrentTrack(mapping'))
       THEN /\ inflight' = [inflight EXCEPT ![CurrentTrack(mapping')] = @ + 1]
            /\ regLock' = LockDuringPut
       ELSE UNCHANGED <<inflight, regLock>>
    /\ clock' = clock + 1
    /\ UNCHANGED <<rlVars, qVars, since, lastTrack, lastPlayer, pVars, eVars,
                   lastPush, uVars>>

\* ---- specifications ------------------------------------------------------------
InitProgram ==
    /\ now = 0
    /\ window = <<>>
    /\ wake = 0
    /\ pc = "idle"
    /\ deque = <<>>
    /\ lastPopped = None
    /\ cvLock = "free"
    /\ notified = FALSE
    /\ inflight = [i \in Items |-> 0]
    /\ mapping = <<>>
    /\ regLock = FALSE
    /\ accepted = <<>>
    /\ nPut = 0
    /\ putItems = {}
    /\ getNp = 0
    /\ delivered = <<>>
    /\ appended = <<>>
    /\ clock = 0
    /\ since = [s \in Players |-> 0]
    /\ lastTrack = [s \in Players |-> None]
    /\ lastPlayer = 0
    /\ closed = FALSE
    /\ loopPc = "ready"
    /\ closeTask = "none"
    /\ taken = 0
    /\ loopState = "running"
    /\ published = <<>>
    /\ cancelledAt = "none"
    /\ closedEarly = FALSE
    /\ putRaised = 0
    /\ eKind = <<"none", "none">>
    /\ eTask = <<"none", "none">>
    /\ eEffects = <<0, 0>>
    /\ ePc = "idle"
    /\ eOut = <<Position(FALSE, None), Position(FALSE, None)>>
    /\ eExc = 0
    /\ lastPush = [any |-> FALSE, at |-> 0, base |-> 0, silent |-> FALSE]

\* No call of truncate or format_status_message is made.
NoCall ==
    /\ sArgs = [fn |-> "none"]
    /\ sRet = [state |-> "none"]

\* No task enters the RateLimiter other than through Queue.get.
NoTasks ==
    /\ acqPc = <<>>
    /\ acqWake = <<>>

Init ==
    /\ InitProgram
    /\ NoCall
    /\ NoTasks

\* The Queue and its RateLimiter driven directly: producer threads call
\* Queue.put (as the observers of main.py do), a consumer calls Queue.get and
\* may be cancelled and replaced (as Selfbot.update_presence is).
NextQueue ==
    \/ \E item \in Items : PutCall(item)
    \/ \E item \in Items : PutRun(item)
    \/ GetStart
    \/ RlWake
    \/ CvWake
    \/ Cancel
    \/ Tick

SpecQueue == Init /\ [][NextQueue]_vars

\* The same with a consumer that is never cancelled.
NextNoCancel ==
    \/ \E item \in Items : PutCall(item)
    \/ \E item \in Items : PutRun(item)
    \/ GetStart
    \/ RlWake
    \/ CvWake
    \/ Tick

SpecNoCancel == Init /\ [][NextNoCancel]_vars

\* The producer side of the program alone: observer threads call notify and
\* the loop runs the puts, while no Selfbot is consuming (spawn_selfbots has
\* not found a Discord process yet).
NextRegistry ==
    \/ \E s \in Players, t \in Items : Notify(s, t)
    \/ \E item \in Items : PutRun(item)

SpecRegistry == Init /\ [][NextRegistry]_vars

\* One Selfbot on the queue: producer threads call Queue.put, the Selfbot's
\* update_presence task consumes, the Selfbot is closed at any moment and the
\* client thread then closes its event loop.
NextPublisher ==
    \/ \E item \in Items : PubPutCall(item)
    \/ \E item \in Items : PutRun(item)
    \/ \E item \in Items : PutRaise(item)
    \/ PubStart
    \/ PubGetStart
    \/ RlWake
    \/ CvWake
    \/ Close
    \/ CloseWaitRun
    \/ EitherReturn
    \/ PublishDone
    \/ ClientExit
    \/ Tick

SpecPublisher == Init /\ [][NextPublisher]_vars

\* The Selfbot while the client thread's event loop runs, under the
\* scheduling of that loop: while a task is ready to run the loop runs a task,
\* and the change_presence call comes back.
NextShutdown ==
    \/ \E item \in Items : PubPutCall(item)
    \/ \E item \in Items : PutRun(item)
    \/ LoopTasks
    \/ Close
    \/ Tick

SpecShutdownFair == Init /\ [][NextShutdown]_vars /\ WF_vars(LoopTasks)

\* The whole pipeline with no shutdown: observer threads call notify, the loop
\* runs the puts and the Selfbot's update_presence task, and the steps of the
\* loop take no time.
NextPipeline ==
    \/ \E s \in 1..NumPipeSources, t \in Items : PipeNotify(s, t)
    \/ \E item \in Items : PutRun(item)
    \/ PubStart
    \/ PubGetStart
    \/ RlWake
    \/ CvWake
    \/ EitherReturn
    \/ PublishDone
    \/ IdleTick

SpecPipeline == Init /\ [][NextPipeline]_vars

\* The whole pipeline with no shutdown, the notify calls stopping, and the
\* client thread's event loop running: a ready task is run, a coroutine handed
\* over by run_coroutine_threadsafe is run, and a sleep runs out.
NextPipelineFair ==
    \/ \E s \in 1..NumPipeSources, t \in Items : FairNotify(s, t)
    \/ \E item \in Items : PutRun(item)
    \/ PubStart
    \/ PubGetStart
    \/ RlWake
    \/ CvWake
    \/ EitherReturn
    \/ PublishDone
    \/ FairTick
    \/ SleepTick

SpecPipelineFair ==
    /\ Init
    /\ [][NextPipelineFair]_vars
    /\ WF_vars(LoopTasks)
    /\ WF_vars(\E item \in Items : PutRun(item))
    /\ WF_vars(SleepTick)

\* truncate called once, on each of TruncateCalls.
InitTruncate ==
    /\ InitProgram
    /\ NoTasks
    /\ sArgs \in TruncateCalls
    /\ sRet = [state |-> "none"]

NextTruncate == TruncateCall

SpecTruncate == InitTruncate /\ [][NextTruncate]_vars

\* format_status_message called once, on each of FormatCalls.
InitFormat ==
    /\ InitProgram
    /\ NoTasks
    /\ sArgs \in FormatCalls
    /\ sRet = [state |-> "none"]

NextFormat == FormatCall

SpecFormat == InitFormat /\ [][NextFormat]_vars

\* NumAcquirers tasks enter and leave one RateLimiter, their blocks
\* overlapping as the loop schedules them.
InitLimiter ==
    /\ InitProgram
    /\ NoCall
    /\ acqPc = [i \in Acquirers |-> "idle"]
    /\ acqWake = [i \in Acquirers |-> 0]

NextLimiter ==
    \/ \E i \in Acquirers : AcqEnter(i)
    \/ \E i \in Acquirers : AcqWake(i)
    \/ \E i \in Acquirers : AcqExit(i)
    \/ Tick

SpecLimiter == InitLimiter /\ [][NextLimiter]_vars

\* One call of either() on two operations of every kind.
NextEither ==
    \/ EitherCall
    \/ \E i \in {1, 2} : OpStep(i)
    \/ EitherResume

SpecEither == Init /\ [][NextEither]_vars

\* ---- properties --------------------------------------------------------------
\* A step in which a run of Queue._put(item) completes.
PutRunStep(item) == inflight'[item] < inflight[item]
\* A step in which a get() returns an item.
DeliverStep == Len(delivered') > Len(delivered)
\* A step in which a consumer calls get().
StartStep == pc = "idle" /\ (pc' # "idle" \/ DeliverStep)
DeliveredItems == [i \in 1..Len(delivered) |-> delivered[i].item]
\* The value a put is compared with, in the words of the dedup policy: the
\* pending item or, the slot being empty, the last popped value.
PendingOrPopped == IF deque # <<>> THEN deque[Len(deque)] ELSE lastPopped

\* The number of get() returns in the window [a, a + Interval).
DeliveriesIn(a) ==
    Cardinality({i \in 1..Len(delivered) :
                    a <= delivered[i].at /\ delivered[i].at < a + Interval})

\* C1: in every execution, cancelled and re-issued get() calls included, at
\* most Quota get() calls return an item within any half-open time window of
\* length Interval.
C1_RateCap == \A a \in 0..MaxTime : DeliveriesIn(a) <= Quota

\* C2 (single acquirer, never cancelled, window empty at the start): each of
\* the first Quota acquisitions completes entry without suspending; the
\* (Quota+1)-th, started while all Quota permits are unexpired, suspends and
\* does not complete entry before the oldest recorded permit expires.
C2_QuotaThenWait ==
    [][ /\ (StartStep /\ Len(delivered) < Quota) => pc' # "rl_sleep"
        /\ (StartStep /\ Len(delivered) = Quota /\ Len(appended) = Quota
               /\ \A i \in 1..Len(appended) : appended[i] > now)
              => pc' = "rl_sleep"
        /\ (pc = "rl_sleep" /\ pc' # "rl_sleep" /\ Len(delivered) = Quota)
              => now >= Min(Range(appended))
      ]_vars

\* C2 witness: the (Quota+1)-th acquisition is suspended until the oldest
\* permit expires.
C2_Witness ==
    /\ pc = "rl_sleep"
    /\ Len(delivered) = Quota
    /\ wake = Min(Range(appended))
    /\ now < wake

C4_DedupNoOp ==
    /\ [](Cardinality(putItems) <= 1 => Len(delivered) <= 1)
    /\ [][\A item \in Items :
            (PutRunStep(item) /\ item = PendingOrPopped)
              => /\ deque' = deque
                 /\ lastPopped' = lastPopped
                 /\ notified' = notified
                 /\ pc' = pc
                 /\ accepted' = accepted
         ]_vars

\* C4 witness: put(x); put(x); get() done, and a second get() is suspended on
\* the empty slot with no wake-up pending.
C4_Witness ==
    /\ nPut = 2
    /\ Cardinality(putItems) = 1
    /\ Len(delivered) = 1
    /\ pc = "cv_wait"
    /\ ~notified
    /\ NothingInFlight

\* C5: the slot never holds more than one item, a put of a value distinct
\* from the last item leaves exactly that value in the slot, and a get() that
\* returns, returns the value in the slot.
C5_SingleSlot ==
    /\ [](Len(deque) <= 1)
    /\ [][\A item \in Items :
            (PutRunStep(item) /\ item # PendingOrPopped)
              => deque' = <<item>>
         ]_vars
    /\ [][DeliverStep
            => /\ deque # <<>>
               /\ delivered'[Len(delivered')].item = deque[Len(deque)]
               /\ deque' = <<>>
         ]_vars

\* C5 witness: put(x); put(y), x # y, no get in between: the slot holds y alone.
C5_Witness ==
    /\ nPut = 2
    /\ Len(accepted) = 2
    /\ delivered = <<>>
    /\ pc = "idle"
    /\ deque = <<accepted[2]>>

\* Exactly two puts have run, with distinct items, and any get() that has
\* returned was called after both.
TwoPutsThenGets ==
    /\ nPut = 2
    /\ Cardinality(putItems) = 2
    /\ \A i \in 1..Len(delivered) : delivered[i].np = 2
\* The items of those two puts: put(None) as the first put is deduplicated
\* against the initial last popped value.
FirstPut == IF Len(accepted) = 2 THEN accepted[1] ELSE None
SecondPut == accepted[Len(accepted)]

\* C6 as stated: after put(x); put(y), x # y, both before any get, the first
\* get() returns x and the second returns y.
C6_FifoBoth ==
    TwoPutsThenGets =>
        /\ Len(delivered) >= 1 => delivered[1].item = FirstPut
        /\ Len(delivered) >= 2 => delivered[2].item = SecondPut

\* C6 amended: after put(x); put(y), x # y, both before any get, the first
\* get() returns y and no second get() returns while no further put runs.
C6_LatestOnly ==
    TwoPutsThenGets =>
        /\ Len(delivered) <= 1
        /\ Len(delivered) = 1 => delivered[1].item = SecondPut

\* C6 witness: put(x); put(y); get() has returned and a second get() is
\* suspended on the empty slot.
C6_Witness ==
    /\ TwoPutsThenGets
    /\ Len(accepted) = 2
    /\ Len(delivered) = 1
    /\ pc = "cv_wait"
    /\ ~notified
    /\ NothingInFlight

\* C7: no get() returns the value the preceding get() returned, and the first
\* get() never returns the absent value.
C7_NeverReannounce ==
    \A i \in 1..Len(delivered) :
        delivered[i].item # (IF i = 1 THEN None ELSE delivered[i - 1].item)

\* s is a subsequence of t (greedy matching from the left).
RECURSIVE IsSubseq(_, _)
IsSubseq(s, t) ==
    IF s = <<>> THEN TRUE
    ELSE IF t = <<>> THEN FALSE
    ELSE IF Head(s) = Head(t) THEN IsSubseq(Tail(s), Tail(t))
    ELSE IsSubseq(s, Tail(t))

\* C8: the values returned by successive get() calls are an order-preserving
\* subsequence of the accepted puts.
C8_OrderPreserved == IsSubseq(DeliveredItems, accepted)

\* C8 witness: three puts were accepted and two values delivered (one was
\* replaced in the slot before any get() took it).
C8_Witness ==
    /\ Len(accepted) = 3
    /\ Len(delivered) = 2
    /\ deque = <<>>

\* C9: whatever the consumer is doing (no get outstanding, asleep in the rate
\* limiter, waiting for a non-empty slot), the condition's lock is free and
\* the loop can run the _put of every thread blocked in put(), after which
\* that put() has returned.
C9_PutNeverWaitsForConsumer ==
    (pc \in {"idle", "rl_sleep", "cv_wait"})
        => /\ cvLock = "free"
           /\ \A item \in Items : inflight[item] > 0 => ENABLED PutRun(item)

\* C9 witness: a put() is pending while the consumer sleeps in the limiter.
C9_Witness ==
    /\ pc = "rl_sleep"
    /\ now < wake
    /\ ~NothingInFlight

\* The players whose most recent notify carried a track.
Present == {s \in Players : since[s] > 0}
Earliest == CHOOSE s \in Present : \A r \in Present : since[s] <= since[r]

\* C10: current_track is the track of the present source whose most recent
\* absent-to-present transition is the earliest, or absent if none is present.
C10_FirstStartedWins ==
    CurrentTrack(mapping) = IF Present = {} THEN None ELSE lastTrack[Earliest]

\* C10 witness: A then B started, A stopped and started again with another
\* track: B is first in the registry and the current track is B's.
C10_Witness ==
    /\ clock = 4
    /\ since[1] = 4
    /\ since[2] = 2
    /\ Present = {1, 2}
    /\ lastTrack[1] # lastTrack[2]
    /\ CurrentTrack(mapping) = lastTrack[2]

\* A step in which a notify call is applied to the registry.
NotifyStep == clock' = clock + 1
\* The queue.put calls made so far: those that ran and those still blocked.
Pushes == nPut + InFlight

\* C11: a notify call invokes queue.put exactly once, with the new current
\* track, if the current track after the mutation differs from the one before
\* it, and not at all otherwise.
C11_PushIffChanged ==
    [][NotifyStep =>
          IF CurrentTrack(mapping') # CurrentTrack(mapping)
          THEN inflight' = [inflight EXCEPT ![CurrentTrack(mapping')] = @ + 1]
          ELSE inflight' = inflight
      ]_vars

\* C11 witness: player 1 started a track (one push), player 2 started the
\* same track and player 1 stopped: the current track is now player 2's, equal
\* in value, and there was no second push.
C11_Witness ==
    /\ clock = 3
    /\ since[1] = 0
    /\ since[2] = 2
    /\ lastTrack[2] # None
    /\ Len(mapping) = 1
    /\ CurrentTrack(mapping) = lastTrack[2]
    /\ Pushes = 1
    /\ lastPlayer = 1

\* C12: a notify(s, v) that directly follows a notify(s, v) leaves the
\* registry's contents and order as they are and pushes nothing.
C12_NotifyIdempotent ==
    [][(NotifyStep /\ clock > 0 /\ lastPlayer' = lastPlayer
          /\ lastTrack'[lastPlayer'] = lastTrack[lastPlayer])
         => /\ mapping' = mapping
            /\ inflight' = inflight
            /\ nPut' = nPut
            /\ regLock' = regLock
      ]_vars

\* C12 witness: notify(1, x) twice in succession, x a track, on the empty
\* registry: one entry, one push.
C12_Witness ==
    /\ clock = 2
    /\ lastPlayer = 1
    /\ since[1] = 1
    /\ lastTrack[1] # None
    /\ mapping = <<[player |-> 1, track |-> lastTrack[1]]>>
    /\ nPut = 1
    /\ putItems = {lastTrack[1]}
    /\ NothingInFlight

\* The sources of the registry, in its order.
Sources(m) == [i \in 1..Len(m) |-> m[i].player]

\* C25: a notify(s, t) with a track t for a source s already in the registry
\* replaces only s's track: the sources and their order stay, the other
\* entries stay, and if s is not the first source the current track stays and
\* nothing is pushed.
C25_UpdateKeepsOrder ==
    [][(NotifyStep /\ lastTrack'[lastPlayer'] # None
          /\ HasPlayer(mapping, lastPlayer'))
         => /\ Sources(mapping') = Sources(mapping)
            /\ \A i \in 1..Len(mapping) :
                  mapping'[i].track = IF mapping[i].player = lastPlayer'
                                      THEN lastTrack'[lastPlayer']
                                      ELSE mapping[i].track
            /\ mapping[1].player # lastPlayer'
                => /\ CurrentTrack(mapping') = CurrentTrack(mapping)
                   /\ inflight' = inflight
                   /\ nPut' = nPut
                   /\ regLock' = regLock
      ]_vars

\* C25 witness: source 1 started, source 2 started, and source 2 (in the
\* registry since its start, second in it) has notified a track again: still
\* second, and only the one push of source 1's start was made.
C25_Witness ==
    /\ clock = 3
    /\ since[1] = 1
    /\ since[2] = 2
    /\ lastPlayer = 2
    /\ Sources(mapping) = <<1, 2>>
    /\ mapping[2].track = lastTrack[2]
    /\ mapping[2].track # mapping[1].track
    /\ Pushes = 1

\* C26: a notify(s, absent) for a source s that is not in the registry leaves
\* the registry and the queue as they are and pushes nothing.
C26_AbsentAgainIsNoOp ==
    [][(NotifyStep /\ lastTrack'[lastPlayer'] = None
          /\ ~HasPlayer(mapping, lastPlayer'))
         => /\ mapping' = mapping
            /\ inflight' = inflight
            /\ regLock' = regLock
            /\ UNCHANGED qVars
      ]_vars

\* C26 witness: source 1 is playing and source 2, which never started, has
\* reported absence: the registry holds source 1 alone and there was one push.
C26_Witness ==
    /\ clock = 2
    /\ since[1] = 1
    /\ lastPlayer = 2
    /\ lastTrack[2] = None
    /\ Sources(mapping) = <<1>>
    /\ Pushes = 1

\* C27: when no notify is in progress the registry holds exactly the sources
\* whose most recent notify carried a track, each once, with that track.
C27_RegistryIsPlayingSources ==
    ~regLock =>
        /\ Range(Sources(mapping)) = {s \in Players : lastTrack[s] # None}
        /\ Cardinality(Range(Sources(mapping))) = Len(mapping)
        /\ \A i \in 1..Len(mapping) : mapping[i].track = lastTrack[mapping[i].player]

\* C27 witness: source 1 started, source 2 started, source 1 stopped (the
\* second push, of source 2's track) and the put has returned: the registry
\* holds source 2 alone.
C27_Witness ==
    /\ ~regLock
    /\ clock = 3
    /\ lastPlayer = 1
    /\ lastTrack[1] = None
    /\ since[2] = 2
    /\ Sources(mapping) = <<2>>
    /\ nPut = 2

\* The value most recently handed to queue.put: that of the put in flight, or
\* of the last one that ran (every put is accepted: C28 includes that no two
\* successive values handed over are equal).
LastHanded ==
    IF ~NothingInFlight THEN CHOOSE item \in Items : inflight[item] > 0
    ELSE IF accepted = <<>> THEN None
    ELSE accepted[Len(accepted)]

\* C28: notify calls are serialized: at most one call is between its mutation
\* and the return of its put, and no other call runs meanwhile; the value most
\* recently handed to queue.put is always the current track of the registry,
\* each step that changes the current track hands over the new one, and the
\* values handed over are successively distinct; so they are the successive
\* distinct current tracks in the order of the mutations.
C28_PushesFollowMutations ==
    /\ [](InFlight <= 1)
    /\ [](LastHanded = CurrentTrack(mapping))
    /\ [](Len(accepted) = nPut)
    /\ [](\A i \in 1..Len(accepted) :
            accepted[i] # (IF i = 1 THEN None ELSE accepted[i - 1]))
    /\ [][(~NothingInFlight => ~NotifyStep)
          /\ (CurrentTrack(mapping') # CurrentTrack(mapping)
                => inflight' = [inflight EXCEPT ![CurrentTrack(mapping')] = @ + 1])
        ]_vars

\* C28 witness: three notifies by three sources have each changed the current
\* track; two puts have run in that order and the third is in flight with the
\* lock held.
C28_Witness ==
    /\ regLock
    /\ clock = 3
    /\ Len(accepted) = 2
    /\ InFlight = 1
    /\ accepted[2] = None
    /\ inflight[accepted[1]] = 0

\* C29 (what it says of the outcome): when acquisitions against one
\* RateLimiter overlap, a second task entering while the first sleeps in entry
\* or is inside its block, the window holds at most Quota instants and
\* neither the entry nor the exit assertion "window size < quota" fails.
C29_OverlapSerialized ==
    /\ Len(window) <= Quota
    /\ \A i \in Acquirers : acqPc[i] \notin {"enter_assert", "exit_assert"}

\* C30: with one consumer making get() calls one after another, the window
\* holds at most Quota instants, in non-decreasing order (the oldest first),
\* each strictly later than the time at which it was appended, and the window
\* is under quota whenever entry has completed and when exit begins: neither
\* assertion fails.
C30_WindowInvariant ==
    /\ Len(window) <= Quota
    /\ \A i, j \in 1..Len(window) : i < j => window[i] <= window[j]
    /\ Len(appended) = Len(delivered)
    /\ \A i \in 1..Len(appended) : appended[i] > delivered[i].at
    /\ Range(window) \subseteq Range(appended)
    /\ pc # "assert_fail"
    /\ pc = "cv_wait" => Len(window) < Quota

\* C30 witness: Quota get() calls returned at two different times, a further
\* one slept in entry and has returned: the window is full again, the older
\* instant first.
C30_Witness ==
    /\ pc = "idle"
    /\ Len(delivered) = Quota + 1
    /\ Len(window) = Quota
    /\ window[1] < window[Quota]
    /\ delivered[Quota + 1].at >= appended[1]
    /\ appended[1] < appended[Quota]

\* The number of times instant x stands in window w.
Occurrences(x, w) == Cardinality({i \in 1..Len(w) : w[i] = x})

\* C31: an instant leaves the rate window only when it is <= the current time
\* (pruned, or removed once the acquisition that found the window full has
\* waited until it): the oldest instant stays in the window while that
\* acquisition is suspended, so a cancellation during the suspension leaves
\* the window as entry found it after pruning.
C31_InstantsLeaveOnlyExpired ==
    [][\A x \in Range(window) :
          Occurrences(x, window') < Occurrences(x, window) => x <= now
      ]_vars

\* A step in which either() returns to update_presence (or raises).
EitherStep == loopPc = "either" /\ loopPc' # "either"

\* A step in which update_presence calls change_presence.
PublishStep == Len(published') > Len(published)

\* C13: no change_presence call is made after the shutdown signal was set.
C13_NoPublishAfterShutdown == [][PublishStep => ~closed]_vars

\* C14: when either() returns with the get() not completed (the shutdown
\* branch won), the pending item and the last popped value are as they were,
\* nothing is delivered or published, and the loop has exited and stays so.
C14_ShutdownWinLeavesQueue ==
    /\ [][(EitherStep /\ ~GetDone)
            => /\ deque' = deque
               /\ lastPopped' = lastPopped
               /\ delivered' = delivered
               /\ published' = published
               /\ loopPc' = "exited"
         ]_vars
    /\ [][loopPc = "exited" => (loopPc' = "exited" /\ published' = published)]_vars

\* C14 witness: the get() was cancelled while waiting for the slot, after one
\* delivery, and an item is pending in the slot of the exited loop.
C14_Witness ==
    /\ loopPc = "exited"
    /\ cancelledAt = "cv_wait"
    /\ Len(delivered) = 1
    /\ Len(published) = 1
    /\ deque # <<>>

\* C15: once the shutdown signal is set while the loop is suspended in
\* either() (the get() asleep in the rate limiter or waiting for the slot),
\* the loop eventually exits, and from then on it removes no item.
C15_ShutdownTerminates ==
    /\ <>[](closed => loopPc = "exited")
    /\ [][loopPc = "exited"
            => /\ loopPc' = "exited"
               /\ delivered' = delivered
               /\ lastPopped' = lastPopped
               /\ (deque' = deque \/ \E item \in Items : PutRunStep(item))
         ]_vars

\* C15 witness: the loop exited from a get() asleep in the rate limiter.
C15_Witness ==
    /\ loopPc = "exited"
    /\ cancelledAt = "rl_sleep"
    /\ closed

\* C16 as stated: after the shutdown signal, whatever has become of the
\* consumer side, no put() raises and every put() in flight can run and return.
C16_PutAfterShutdown ==
    closed => /\ putRaised = 0
              /\ \A item \in Items : inflight[item] > 0 => ENABLED PutRun(item)

\* C16 amended: after the shutdown signal and while the client thread's event
\* loop is running (the publisher loop exited or not), every put() in flight
\* can run and return, and a put that runs applies the dedup/overwrite
\* update; a put() raises only once the event loop was closed.
C16_PutWhileLoopRuns ==
    /\ []((closed /\ loopState = "running")
            => \A item \in Items : inflight[item] > 0 => ENABLED PutRun(item))
    /\ [][\A item \in Items :
            (closed /\ PutRunStep(item))
              => /\ deque' = IF item = PendingOrPopped THEN deque ELSE <<item>>
                 /\ lastPopped' = lastPopped
         ]_vars
    /\ [](putRaised > 0 => loopState = "closed")

\* C16 witness: the publisher loop has exited, the event loop still runs, and
\* a put() called after the shutdown signal has run and left its item.
C16_Witness ==
    /\ closed
    /\ loopPc = "exited"
    /\ loopState = "running"
    /\ closedEarly
    /\ nPut > 0
    /\ cancelledAt = "cv_wait"
    /\ deque # <<>>
    /\ NothingInFlight

\* C17: end to end, with no shutdown and the loop's steps taking no time: after
\* a notify that took the current track from None to a track v (the most recent
\* push, whatever notifies that change nothing follow it), the publisher calls
\* change_presence with the Game of v's formatted text at most once; as long as
\* it has not, the time is at most one interval past the notify, and the loop
\* does not let time pass once that deadline is reached: so the one call comes
\* no later than one rate-limiter interval after the notify.
PublishedSincePush ==
    {i \in (lastPush.base + 1)..Len(published) :
        published[i] = GameOf(CurrentTrack(mapping))}

C17_Case ==
    /\ lastPush.any
    /\ lastPush.silent
    /\ CurrentTrack(mapping) # None

LoremIpsumCut ==
    <<"l", "o", "r", "e", "m", Space, "i", "p", "s", "u", "m", Space, "[",
      HorizontalEllipsis, "]">>
LoremIpsumDolorCut ==
    <<"l", "o", "r", "e", "m", Space, "i", "p", "s", "u", "m", Space, "d",
      "o", "l", "o", "r", Space, "[", HorizontalEllipsis, "]">>
HowdeeCut ==
    <<"h", "o", "w", "d", "e", "e", "[", HorizontalEllipsis, "]">>

\* The longest prefix of whole characters of `string` that encodes to at most n
\* bytes.
WholePrefix(string, n) ==
    LET fits == {k \in 0..Len(string) : EncodedLen(SubSeq(string, 1, k)) <= n}
    IN  SubSeq(string, 1, CHOOSE k \in fits : \A j \in fits : j <= k)

LastSpace(string) ==
    LET spaces == {i \in 1..Len(string) : IsSpace(string[i])}
    IN  CHOOSE i \in spaces : \A j \in spaces : j <= i

\* `string` cut back to its last whitespace boundary (the end of the word before
\* its last run of whitespace), plus one space.
CutBack(string) == RStrip(SubSeq(string, 1, LastSpace(string))) \o <<Space>>

EndsInWord(string) == string # <<>> /\ ~IsSpace(string[Len(string)])
HasSpace(string) == \E i \in 1..Len(string) : IsSpace(string[i])
HasSpaceAfterWord(string) ==
    \E i, j \in 1..Len(string) : i < j /\ ~IsSpace(string[i]) /\ IsSpace(string[j])

TruncateCalled == sArgs.fn = "truncate" /\ sRet.state # "none"

\* What the doctests say of the calls made.
TruncateExamples ==
    /\ sArgs.string = LoremIpsum /\ sArgs.max_bytes \in {21, 22}
        => sRet = Returned(LoremIpsumCut)
    /\ sArgs.string = LoremIpsum /\ sArgs.max_bytes = 23
        => sRet = Returned(LoremIpsumDolorCut)
    /\ sArgs.string = Howdee /\ sArgs.max_bytes = 11
        => sRet = Returned(HowdeeCut)

\* C22 as stated: truncate(s, max_bytes) with max_bytes >= 5 returns s when it
\* fits; otherwise the longest whole-character prefix of at most max_bytes - 5
\* bytes, cut back to its last whitespace boundary plus one space whenever it
\* ends in a word and contains whitespace, and the marker; at most max_bytes
\* bytes.
C22_TruncateAsStated ==
    TruncateCalled /\ sArgs.max_bytes >= 5 =>
        LET prefix == WholePrefix(sArgs.string, sArgs.max_bytes - 5)
        IN  /\ sRet.state = "returned"
            /\ EncodedLen(sRet.value) <= sArgs.max_bytes
            /\ TruncateExamples
            /\ sRet.value =
                 IF EncodedLen(sArgs.string) <= sArgs.max_bytes THEN sArgs.string
                 ELSE IF EndsInWord(prefix) /\ HasSpace(prefix)
                      THEN CutBack(prefix) \o Ellipsis
                      ELSE prefix \o Ellipsis

\* C22: truncate(s, max_bytes) with max_bytes >= 5 returns s when it fits;
\* otherwise the longest whole-character prefix of at most max_bytes - 5 bytes,
\* cut back to its last whitespace boundary plus one space when it ends in a
\* word and some whitespace in it follows a word (a prefix whose only
\* whitespace is leading keeps the hard cut), and the marker; at most max_bytes
\* bytes; and the doctests' results.
C22_TruncateWordCut ==
    TruncateCalled /\ sArgs.max_bytes >= 5 =>
        LET prefix == WholePrefix(sArgs.string, sArgs.max_bytes - 5)
        IN  /\ sRet.state = "returned"
            /\ EncodedLen(sRet.value) <= sArgs.max_bytes
            /\ TruncateExamples
            /\ sRet.value =
                 IF EncodedLen(sArgs.string) <= sArgs.max_bytes THEN sArgs.string
                 ELSE IF EndsInWord(prefix) /\ HasSpaceAfterWord(prefix)
                      THEN CutBack(prefix) \o Ellipsis
                      ELSE prefix \o Ellipsis

\* C22 witness: truncate('lorem ipsum dolor sit amet', 21) returned
\* 'lorem ipsum [...]': the partial word 'dolo' was lobbed off.
C22_Witness ==
    /\ sArgs = [fn |-> "truncate", string |-> LoremIpsum, max_bytes |-> 21]
    /\ sRet = Returned(LoremIpsumCut)

\* C23: truncate with max_bytes < 5 fails its assertion for every string, also
\* one that fits in max_bytes; with max_bytes = 5 and a string of more than 5
\* bytes it returns the marker alone.
C23_SmallBudget ==
    TruncateCalled =>
        /\ sArgs.max_bytes < 5 => sRet.state = "assertion_error"
        /\ sArgs.max_bytes = 5 /\ EncodedLen(sArgs.string) > 5
            => sRet = Returned(Ellipsis)

\* C23 witness: a call with max_bytes = 4 on a string of 3 bytes failed.
C23_Witness ==
    /\ TruncateCalled
    /\ sArgs.max_bytes = 4
    /\ EncodedLen(sArgs.string) = 3
    /\ sRet.state = "assertion_error"

FormatCalled == sArgs.fn = "format_status_message" /\ sRet.state # "none"

\* C21: for every artist and title, multi-byte characters at the cuts included,
\* format_status_message (of the package and of the script) returns a string
\* that encodes to at most 128 bytes.
C21_StatusFits ==
    FormatCalled =>
        /\ sRet.state = "returned"
        /\ EncodedLen(sRet.value) <= 128

\* C21 witness: an artist of four-byte characters and a title of three-byte
\* characters, both too long: both were cut (two markers), each cut falling
\* inside a character.
C21_Witness ==
    /\ FormatCalled
    /\ sArgs.artist = Cycle(<<GClef>>, RunStep)
    /\ sArgs.title = Cycle(<<EmDash>>, 2 * RunStep)
    /\ sRet.state = "returned"
    /\ Len(SelectSeq(sRet.value, LAMBDA c : c = HorizontalEllipsis)) = 2
    /\ EncodedLen(sRet.value) < MaxStatusBytes

\* What the doctests expect of the two short calls.
AudiomachineStatus ==
    <<"a", "u", "d", "i", "o", "m", "a", "c", "h", "i", "n", "e", Space,
      EmDash, Space, "B", "e", "y", "o", "n", "d", Space, "t", "h", "e",
      Space, "C", "l", "o", "u", "d", "s">>
UnknownStatus ==
    <<"[", "u", "n", "k", "n", "o", "w", "n", "]", Space, EmDash, Space, "[",
      "u", "n", "k", "n", "o", "w", "n", "]">>

IsBlank(string) == \A i \in 1..Len(string) : IsSpace(string[i])
Trimmed(string) ==
    LET first == CHOOSE i \in 1..Len(string) :
                    ~IsSpace(string[i]) /\ \A j \in 1..(i - 1) : IsSpace(string[j])
        last == CHOOSE i \in 1..Len(string) :
                    ~IsSpace(string[i]) /\ \A j \in (i + 1)..Len(string) : IsSpace(string[j])
    IN  SubSeq(string, first, last)
Shown(string) == IF IsBlank(string) THEN Unknown ELSE Trimmed(string)
StartsWith(string, head) ==
    Len(string) >= Len(head) /\ SubSeq(string, 1, Len(head)) = head
EndsWith(string, tail) ==
    /\ Len(string) >= Len(tail)
    /\ SubSeq(string, Len(string) - Len(tail) + 1, Len(string)) = tail

\* C24: format_status_message of the package shows an artist or a title that
\* is blank after trimming as '[unknown]'; when the trimmed (or replaced)
\* artist and title fit in 128 bytes less the separator it returns exactly
\* artist + separator + title; and the two doctests' results.
C24_PlaceholderAndFit ==
    FormatCalled /\ sArgs.version = "package" =>
        LET artist == Shown(sArgs.artist)
            title == Shown(sArgs.title)
        IN  /\ IsBlank(sArgs.artist)
                => sRet.state = "returned"
                   /\ StartsWith(sRet.value, Unknown \o Separator)
            /\ IsBlank(sArgs.title)
                => sRet.state = "returned"
                   /\ EndsWith(sRet.value, Separator \o Unknown)
            /\ EncodedLen(artist) + EncodedLen(title) <= 128 - EncodedLen(Separator)
                => sRet = Returned(artist \o Separator \o title)
            /\ sArgs.artist = Audiomachine /\ sArgs.title = BeyondTheClouds
                => sRet = Returned(AudiomachineStatus)
            /\ sArgs.artist = <<>> /\ sArgs.title = <<Space>>
                => sRet = Returned(UnknownStatus)

\* C24 witness: format_status_message('', ' ') returned
\* '[unknown] -- [unknown]' (with the em dash).
C24_Witness ==
    /\ FormatCalled
    /\ sArgs.version = "package"
    /\ sArgs.artist = <<>>
    /\ sArgs.title = <<Space>>
    /\ sRet = Returned(UnknownStatus)

\* C18: the change_presence calls are, in order, one per value get() returned:
\* the absent value as "no game", a track as the game named by its status
\* message; and the loop calls get() again only after the call for the last
\* value returned.
C18_OnePublishPerDelivery ==
    /\ [](Len(published) <= Len(delivered))
    /\ [](\A i \in 1..Len(published) :
            published[i] =
                IF delivered[i].item = None THEN NoGame
                ELSE [name |-> StatusMessage(delivered[i].item), type |-> 2])
    /\ [](loopPc \in {"publishing", "exited"} => Len(published) = Len(delivered))
    /\ [][StartStep => Len(published) = Len(delivered)]_vars

\* C18 witness: a track and then the absent value were delivered and each was
\* published, with no shutdown.
C18_Witness ==
    /\ ~closed
    /\ Len(published) = 2
    /\ published[1] # NoGame
    /\ published[2] = NoGame
    /\ loopPc = "either"

\* A step in which either() returns or raises.
ResumeStep == ePc = "waiting" /\ ePc' # "waiting"

\* C19: either() returns only after one of the two operations has completed;
\* a position is (True, result) exactly for an operation that had completed
\* by then and (False, None) otherwise; an operation reported (False, None)
\* was cancelled and runs no further step; and with a first operation that
\* returns at once and a second that never completes, only the first is
\* reported completed.
C19_EitherReportsCompleted ==
    /\ [][ResumeStep => (TaskDone(eTask[1]) \/ TaskDone(eTask[2]))]_vars
    /\ [](ePc = "returned" =>
            \A i \in {1, 2} :
                IF eTask[i] = "done"
                THEN eOut[i] = [ok |-> TRUE, result |-> ResultOf(i)]
                ELSE /\ eOut[i] = [ok |-> FALSE, result |-> None]
                     /\ eTask[i] = "cancelled")
    /\ [][\A i \in {1, 2} :
            (ePc = "returned" /\ ~eOut[i].ok) => eEffects'[i] = eEffects[i]]_vars
    /\ []((ePc = "returned" /\ eKind = <<"returns", "never">>)
            => eOut = <<[ok |-> TRUE, result |-> ResultOf(1)],
                        [ok |-> FALSE, result |-> None]>>)

\* C19 witness: either() has returned from a first operation that returned at
\* once and a second that never completes, which is cancelled.
C19_Witness ==
    /\ ePc = "returned"
    /\ eKind = <<"returns", "never">>
    /\ eTask = <<"done", "cancelled">>
    /\ eEffects = <<1, 1>>

\* C20 as stated: when one of the two operations fails, either() still
\* returns its pair.
C20_PairOnFailure ==
    (ePc # "waiting" /\ \E i \in {1, 2} : eTask[i] = "failed") => ePc = "returned"

\* C20 amended: when one of the two operations has failed by the time
\* either() resumes, either() raises that operation's exception (the first
\* operation's if both failed) and returns no pair; it raises in no other
\* case, so cancelling the pending operation never makes it fail.
C20_FailureRaises ==
    /\ [][ResumeStep =>
            IF eTask[1] = "failed"
            THEN ePc' = "raised" /\ eExc' = 1
            ELSE IF eTask[2] = "failed"
            THEN ePc' = "raised" /\ eExc' = 2
            ELSE ePc' = "returned" /\ eExc' = 0
         ]_vars
    /\ [](ePc = "raised" => (eExc # 0 /\ eTask[eExc] = "failed"))
    /\ [](ePc = "returned" => \A i \in {1, 2} : eTask[i] # "failed")

\* C20 witness: the second operation raised while the first was suspended;
\* either() raised the second's exception and the first is cancelled.
C20_Witness ==
    /\ ePc = "raised"
    /\ eExc = 2
    /\ eTask = <<"cancelled", "failed">>

\* What the doctests expect of the two long calls.
DanielWinigerStatus ==
    <<"D", "a", "n", "i", "e", "l", Space, "W", "i", "n", "i", "g", "e", "r",
      ",", Space, "D", "a", "n", "i", "e", "l", Space, "P", "e", "r", "r",
      "e", "t", Space, "&", Space, "[", HorizontalEllipsis, "]", Space,
      EmDash, Space, "E", "l", "l", "e", "n", "'", "s", Space, "G", "e", "s",
      "a", "n", "g", Space, "I", "I", "I", Space, "(", "A", "v", "e", Space,
      "M", "a", "r", "i", "a", "!", ")", ",", Space, "O", "p", ".", Space,
      "5", "6", ",", Space, "N", "o", ".", Space, "6", ",", Space, "D", ".",
      Space, "8", "3", "9", ",", Space, "\"", "H", "y", "m", "n", "e", Space,
      "a", "n", Space, "D", "i", "e", Space, "J", "u", "n", "g", "f", "r",
      "a", "u", "\"">>
GustavKuhnStatus ==
    <<"G", "u", "s", "t", "a", "v", Space, "K", "u", "h", "n", ",", Space,
      "H", "a", "y", "d", "n", Space, "[", HorizontalEllipsis, "]", Space,
      EmDash, Space, "S", "y", "m", "p", "h", "o", "n", "i", "e", Space, "N",
      "o", ".", Space, "6", Space, "i", "n", Space, "A", "-", "D", "u", "r",
      ",", Space, "O", "p", ".", Space, "6", "8", Space, "-", Space, "\"",
      "P", "a", "s", "t", "o", "r", "a", "l", "e", "\"", ":", Space, "E",
      "r", "w", "a", "c", "h", "e", "n", Space, "h", "e", "i", "t", "e", "r",
      "e", "r", Space, "G", "e", "f", UUmlaut, "h", "l", "e", Space, "b",
      "e", "i", Space, "d", "e", "r", Space, "A", "n", "k", "u", "n", "f",
      "t", Space, "[", HorizontalEllipsis, "]">>

\* C32: when artist + separator + title exceed 128 bytes, format_status_message
\* (of the package) truncates the artist first and only if it is longer than
\* 30 bytes, to max(30, 123 - title bytes) bytes; it truncates the title only
\* if the message is still over budget, to 123 - (resulting artist bytes)
\* bytes.  An artist of at most 30 bytes, and a title that fits once the
\* artist is shortened, appear unaltered; and the two long doctests' results.
C32_ArtistFirstThenTitle ==
    FormatCalled /\ sArgs.version = "package" =>
        LET artist == Shown(sArgs.artist)
            title == Shown(sArgs.title)
            left == 123 - EncodedLen(title)
            cutArtist == /\ EncodedLen(artist) + 5 + EncodedLen(title) > 128
                         /\ EncodedLen(artist) > 30
            artistOut == IF cutArtist
                         THEN Truncate(artist, IF left > 30 THEN left ELSE 30).value
                         ELSE artist
            stillOver == EncodedLen(artistOut) + 5 + EncodedLen(title) > 128
            titleOut == IF stillOver
                        THEN Truncate(title, 123 - EncodedLen(artistOut)).value
                        ELSE title
        IN  /\ sRet = Returned(artistOut \o Separator \o titleOut)
            /\ EncodedLen(artist) <= 30
                => StartsWith(sRet.value, artist \o Separator)
            /\ ~stillOver => EndsWith(sRet.value, Separator \o title)
            /\ sArgs.artist = DanielWiniger /\ sArgs.title = EllensGesang
                => sRet = Returned(DanielWinigerStatus)
            /\ sArgs.artist = GustavKuhn /\ sArgs.title = Symphonie
                => sRet = Returned(GustavKuhnStatus)

\* C32 witness: the third doctest returned its documented result: the artist
\* cut to 'Gustav Kuhn, Haydn [...]' and then the title cut as well.
C32_Witness ==
    /\ FormatCalled
    /\ sArgs.version = "package"
    /\ sArgs.artist = GustavKuhn
    /\ sArgs.title = Symphonie
    /\ sRet = Returned(GustavKuhnStatus)

\* The calls of truncate made by the call of format_status_message.
TruncateCallsMade ==
    FormatRun(sArgs.version, sArgs.artist, sArgs.title).calls

\* C36: every call of truncate made by format_status_message satisfies
\* truncate's precondition (max_bytes >= 5): in the package the artist is
\* truncated with max_bytes >= 30 and the title with max_bytes >= 93 (in the
\* script, whose prefix takes 4 bytes, >= 30 and >= 89), and no assertion, of
\* truncate or of format_status_message, fails.
C36_TruncateCallsWithinPrecondition ==
    FormatCalled =>
        /\ LET calls == TruncateCallsMade
            IN  \A i \in 1..Len(calls) :
                  /\ calls[i].max_bytes >= 5
                  /\ calls[i].arg = "artist" => calls[i].max_bytes >= 30
                  /\ calls[i].arg = "title" =>
                        calls[i].max_bytes >=
                            (IF sArgs.version = "package" THEN 93 ELSE 89)
        /\ sRet.state = "returned"

\* C36 witness: a call of the package with an artist of more than 30 bytes
\* and a title of more than 123 bytes made both calls of truncate, with the
\* least budgets, 30 and 93, and returned.
C36_Witness ==
    /\ FormatCalled
    /\ sArgs.version = "package"
    /\ sArgs.artist = Cycle(<<"a">>, RunStep)
    /\ sArgs.title = Cycle(<<"a">>, 3 * RunStep)
    /\ Len(TruncateCallsMade) = 2
    /\ TruncateCallsMade[1].max_bytes = 30
    /\ TruncateCallsMade[2].max_bytes = 93
    /\ sRet.state = "returned"
    /\ EncodedLen(sRet.value) = 128

\* C33: with NowPlayingNotifier as the queue's only producer, whenever no
\* notify is in progress the queue's last item (the pending item if the slot
\* is non-empty, otherwise the last popped value) is the registry's current
\* track; and the dedup branch of Queue._put never rejects a put made by
\* notify: every put that ran was accepted.
C33_LastItemIsCurrentTrack ==
    /\ ~regLock => LastItem(deque, lastPopped) = CurrentTrack(mapping)
    /\ Len(accepted) = nPut

\* C33 witness: three notifies each changed the current track and their puts
\* ran; the publisher has taken the last of them, so the slot is empty and
\* the last popped value is the current track.
C33_Witness ==
    /\ ~regLock
    /\ nPut = 3
    /\ Len(accepted) = 3
    /\ deque = <<>>
    /\ CurrentTrack(mapping) # None
    /\ lastPopped = CurrentTrack(mapping)

\* The pipeline has settled on the current track: no put is under way, the
\* slot is empty, update_presence is back in either() with nothing to take,
\* and the last change_presence call (if any was made) carried the current
\* track: its formatted text, or no game when the track is absent.
Settled ==
    /\ ~regLock
    /\ NothingInFlight
    /\ deque = <<>>
    /\ loopPc = "either"
    /\ ~GetDone
    /\ IF published = <<>>
       THEN CurrentTrack(mapping) = None
       ELSE published[Len(published)] = GameOf(CurrentTrack(mapping))

\* C34: if the notify calls stop, shutdown is never signalled and the
\* consumer's event loop keeps running, then from some point on the most
\* recently published status corresponds to the registry's current track
\* (its formatted text, or cleared / never set when absent) and nothing is
\* left to publish: the final value is never lost.
C34_FinalTrackPublished == <>[]Settled

\* C34 witness: two notifies changed the current track before the publisher
\* took anything: the first value was skipped, the final one was published,
\* and the pipeline has settled.
C34_Witness ==
    /\ Settled
    /\ clock = 2
    /\ nPut = 2
    /\ Len(published) = 1
    /\ CurrentTrack(mapping) # None

\* C35: notify holds the registry lock exactly while it is blocked in
\* Queue.put, the condition lock is never held while the consumer is
\* suspended (waiting for the slot or in the rate limiter), so the put can
\* run; and every notify call returns: from some point on no call holds the
\* registry lock.
C35_NotifyReturns ==
    /\ [](regLock <=> ~NothingInFlight)
    /\ [](cvLock = "free")
    /\ <>[](~regLock)

\* C35 witness: a notify is blocked in put, the registry lock held, while the
\* consumer's get() sleeps in the rate limiter.
C35_Witness ==
    /\ regLock
    /\ ~NothingInFlight
    /\ pc = "rl_sleep"
    /\ now < wake

====
